---- MODULE Spec2Model ----
(***************************************************************************)
(* Model of the playlist pipeline of package nhlgc (gamecenter.go):        *)
(*   GetPlaylistsFromURL            master / media playlist resolution     *)
(*   GetMediaPlaylist               media playlist retrieval               *)
(*   GetStreamDecryptionParameters  per-segment decryption parameters      *)
(*                                                                         *)
(* Go strings and byte slices are sequences (of one-character strings and  *)
(* of numbers 0..255).  A Go pointer is a sequence of length 0 (nil) or 1. *)
(* A uint64 is four 16-bit limbs, most significant first, because TLC's    *)
(* integers are 32 bits wide; its arithmetic wraps at 2^64 as Go's does.   *)
(***************************************************************************)
EXTENDS Integers, Sequences, FiniteSets, TLC

\* ------------------------------------------------------------------ bounds

MaxSegments == 3

MaxVariants == 7

MaxTextLen == 3

\* ----------------------------------------------------------------- helpers

Nil == <<>>

IsNil(p) == p = <<>>

Ptr(v) == <<v>>

Deref(p) == p[1]

Quote == "\""

\* uint64 as limbs
LimbBase == 2^16

U64(a, b, c, d) == <<a, b, c, d>>

\* x + uint64(n) for 0 <= n < 2^16, wrapping at 2^64.
Uint64Add(x, n) ==
    LET s4 == x[4] + n
        s3 == x[3] + (s4 \div LimbBase)
        s2 == x[2] + (s3 \div LimbBase)
        s1 == x[1] + (s2 \div LimbBase)
    IN  <<s1 % LimbBase, s2 % LimbBase, s3 % LimbBase, s4 % LimbBase>>

\* byte(x >> shift & 0xff) for shift in {0, 8, .., 56}
ShiftByte(x, shift) ==
    (x[4 - (shift \div 16)] \div (2^(shift % 16))) % 256

\* []byte(s) for the characters the playlists of the model use (ASCII).
ByteOfChar(c) ==
    CASE c = "0" -> 48
      [] c = "x" -> 120
      [] c = "a" -> 97

BytesOfString(s) == [k \in 1..Len(s) |-> ByteOfChar(s[k])]

\* ---------------------------------------------------------------- m3u8 data

MASTER == "MASTER"

MEDIA == "MEDIA"

\* Any other list type value (the default branch of the switch).
OtherType == "OTHER"

Repeat(c, n) == [k \in 1..n |-> c]

\* Key URIs the key server is asked for.
KeyUriA == <<"k", "1">>

KeyUriB == <<"k", "2">>

\* Cipher blocks (m3u8.Key) of the segments handed to
\* GetStreamDecryptionParameters.  The IV attribute is absent, a 16-character
\* value, or a 0x-prefixed 128-bit hexadecimal literal (34 characters).
DeriveKeys ==
    { [Method |-> "AES-128", URI |-> KeyUriA, IV |-> <<>>],
      [Method |-> "AES-128", URI |-> KeyUriA, IV |-> Repeat("a", 16)],
      [Method |-> "SAMPLE-AES", URI |-> KeyUriB, IV |-> <<>>],
      [Method |-> "AES-128", URI |-> KeyUriB, IV |-> <<"0", "x">> \o Repeat("0", 32)] }

\* Start sequence numbers (#EXT-X-MEDIA-SEQUENCE): 0, 255, 65535 and 2^64 - 2.
SeqNos ==
    { U64(0, 0, 0, 0), U64(0, 0, 0, 255), U64(0, 0, 0, LimbBase - 1),
      U64(LimbBase - 1, LimbBase - 1, LimbBase - 1, LimbBase - 2) }

\* Response bodies of the key server.
KeyBodies == {<<17>>, <<34>>}

EntryName(k) == <<"s", <<"0", "1", "2", "3", "4", "5", "6", "7", "8", "9">>[k + 1]>>

\* Segments: each entry nil, or a segment named after its place, with or
\* without a cipher block.
SegmentLists(keys) ==
    LET shapes == {<<FALSE, Nil>>} \cup {<<TRUE, key>> : key \in {Nil} \cup {Ptr(b) : b \in keys}}
    IN  UNION { { [k \in 1..n |->
                     IF f[k][1] THEN Ptr([URI |-> EntryName(k), Key |-> f[k][2]])
                     ELSE Nil] :
                  f \in [1..n -> shapes] } : n \in 0..MaxSegments }

MediaPlaylists(docKeys, keys, seqNos) ==
    { [kind |-> MEDIA, Variants |-> <<>>, Key |-> key, SeqNo |-> seq, Segments |-> segs] :
        key \in {Nil} \cup {Ptr(b) : b \in docKeys}, seq \in seqNos,
        segs \in SegmentLists(keys) }

MasterPlaylists(bandwidths) ==
    { [kind |-> MASTER, Variants |-> v, Key |-> Nil, SeqNo |-> U64(0, 0, 0, 0),
       Segments |-> <<>>] :
        v \in UNION { { [k \in 1..n |-> [URI |-> EntryName(k), Bandwidth |-> b[k]]] :
                          b \in [1..n -> bandwidths] } : n \in 0..MaxVariants } }

\* -------------------------------------------------------------------- state

VARIABLES
    call,       \* the exported function being called
    pc,         \* position of the call in progress
    parsedURL,  \* GetPlaylistsFromURL: url.Parse(reqUrl)
    rawFile,    \* the playlist as the server sends it (RawFile: string(response))
    m3u8obj,    \* the decoded playlist (shared by pointer, mutated in place)
    playlists,  \* GetPlaylistsFromURL: the named result
    err,        \* the named result err
    i,          \* GetStreamDecryptionParameters: loop index + 1
    param,      \* GetStreamDecryptionParameters: the accumulator
    params,     \* GetStreamDecryptionParameters: the named result
    gets,       \* the key URIs requested with GET so far, in order
    o,          \* UnmarshalXML: the OptionalUint64 behind the receiver
    oBefore,    \* UnmarshalXML: the value of *o when the call began
    element     \* UnmarshalXML: the character data of the element

vars == <<o, oBefore, element, call, pc, parsedURL, rawFile, m3u8obj, playlists, err, i, param, params, gets>>

\* No playlist decoded (yet); a call that fetches none.
NoPlaylist ==
    [kind |-> "nil", Variants |-> <<>>, Key |-> Nil, SeqNo |-> U64(0, 0, 0, 0),
     Segments |-> <<>>]

\* A call that parses no URL.
NoURL == [Scheme |-> "", Host |-> "", Path |-> <<>>, RawQuery |-> ""]

\* DecryptionParameters{}
ZeroParam == [Method |-> "", Sequence |-> U64(0, 0, 0, 0), Key |-> <<>>, IV |-> <<>>]

\* ------------------------------------------------------ GetPlaylistsFromURL

\* url.Parse(reqUrl) of the request URLs of the model:
\*   https://h/a/b/c?x=1   c   http://h/a/   http://h
RequestURLs ==
    { [Scheme |-> "https", Host |-> "h", Path |-> <<"/", "a", "/", "b", "/", "c">>,
       RawQuery |-> "x=1"],
      [Scheme |-> "", Host |-> "", Path |-> <<"c">>, RawQuery |-> ""],
      [Scheme |-> "http", Host |-> "h", Path |-> <<"/", "a", "/">>, RawQuery |-> ""],
      [Scheme |-> "http", Host |-> "h", Path |-> <<>>, RawQuery |-> ""] }

\* The request URLs media playlists are fetched from.
MediaRequestURLs == {u \in RequestURLs : Len(u.Path) \in {1, 6}}

\* Key URI attribute values as the decoder hands them over: with and without
\* literal quotes, empty, and a single quote.
ResolveKeyURIs ==
    { <<>>, <<Quote>>, <<Quote, "k", Quote>>, <<"k">>, <<Quote, "k">>, <<"k", Quote>> }

ResolveKeys == {[Method |-> "AES-128", URI |-> u, IV |-> <<>>] : u \in ResolveKeyURIs}

\* BANDWIDTH attribute values of the variants.
Bandwidths == {1, 2}

\* strings.LastIndex(s, c): the Go index of the last c in s, -1 without one.
LastIndex(s, c) ==
    IF \E k \in 1..Len(s) : s[k] = c
    THEN (CHOOSE k \in 1..Len(s) : s[k] = c /\ \A m \in (k + 1)..Len(s) : s[m] # c) - 1
    ELSE -1

\* Mutation of JoinPath: the path is cut after its first "/".
JoinPathAtFirst(path, uri) ==
    LET cut == IF \E k \in 1..Len(path) : path[k] = "/"
               THEN CHOOSE k \in 1..Len(path) :
                        path[k] = "/" /\ \A m \in 1..(k - 1) : path[m] # "/"
               ELSE 0
    IN  SubSeq(path, 1, cut) \o uri

\* parsedURL.Path[:strings.LastIndex(parsedURL.Path, "/")+1] + uri
JoinPath(path, uri) == SubSeq(path, 1, LastIndex(path, "/") + 1) \o uri

\* The url.URL literal of a StreamPlaylist.
JoinURL(base, uri) ==
    [Scheme |-> base.Scheme, Host |-> base.Host, Path |-> JoinPath(base.Path, uri),
     RawQuery |-> base.RawQuery]

\* Mutation of Less: the lowest bandwidth sorts first.
LessAscending(a, b) == a.Bandwidth < b.Bandwidth

\* ByHighestBandwidth.Less, on the elements at the two indexes.
Less(a, b) == a.Bandwidth > b.Bandwidth

\* ByHighestBandwidth.Swap
Swap(a, x, y) == [a EXCEPT ![x] = a[y], ![y] = a[x]]

\* sort.Sort on a slice of at most 12 elements.  The insertion sort of package
\* sort, "for i := a+1; i < b; i++ { for j := i; j > a && Less(j, j-1); j--
\* { Swap(j, j-1) } }" ...
RECURSIVE InsertionInner(_, _)
InsertionInner(a, j) ==
    IF j > 1 /\ Less(a[j], a[j - 1])
    THEN InsertionInner(Swap(a, j, j - 1), j - 1)
    ELSE a

RECURSIVE InsertionSort(_, _)
InsertionSort(a, idx) ==
    IF idx > Len(a) THEN a ELSE InsertionSort(InsertionInner(a, idx), idx + 1)

\* ... which Go 1.6 to 1.18 precede with one ShellSort pass with gap 6,
\* "for i := a+6; i < b; i++ { if Less(i, i-6) { Swap(i, i-6) } }".
RECURSIVE ShellPass(_, _)
ShellPass(a, idx) ==
    IF idx > Len(a) THEN a
    ELSE ShellPass(IF Less(a[idx], a[idx - 6]) THEN Swap(a, idx, idx - 6) ELSE a,
                   idx + 1)

\* The implementations of sort.Sort the build may link.
SortImplementations == {"insertion", "shell+insertion"}

\* sort.Sort(ByHighestBandwidth(playlists))
SortSort(impl, a) ==
    IF impl = "shell+insertion"
    THEN InsertionSort(ShellPass(a, 7), 2)
    ELSE InsertionSort(a, 2)

\* The loop over playlist.Variants.
MasterStreams(base, playlist) ==
    [k \in 1..Len(playlist.Variants) |->
        [URL |-> JoinURL(base, playlist.Variants[k].URI),
         Bandwidth |-> playlist.Variants[k].Bandwidth]]

\* Key.URI[0] or Key.URI[1 : len-1] panics: an empty URI (index out of
\* range), a URI that is one quote (slice bounds out of range).
KeyURIPanics(uri) ==
    \/ Len(uri) = 0
    \/ (uri[1] = Quote /\ uri[Len(uri)] = Quote /\ 1 > Len(uri) - 1)

\* The quote stripping of a key URI, where it does not panic.
StripQuotes(uri) ==
    IF uri[1] = Quote /\ uri[Len(uri)] = Quote
    THEN SubSeq(uri, 2, Len(uri) - 1)
    ELSE uri

\* The key pointer after its URI was sanitized in place.
SanitizedKey(key) ==
    IF IsNil(key) THEN key
    ELSE Ptr([Deref(key) EXCEPT !.URI = StripQuotes(Deref(key).URI)])

KeyPanics(key) == ~IsNil(key) /\ KeyURIPanics(Deref(key).URI)

\* The loop over playlist.Segments from index idx on, with the streams
\* appended so far; withStreams is FALSE for GetMediaPlaylist, whose loop
\* appends nothing.  The result holds the playlist as mutated, the streams,
\* and whether the loop panicked.
RECURSIVE MediaLoop(_, _, _, _, _)
MediaLoop(base, playlist, idx, streams, withStreams) ==
    IF idx > Len(playlist.Segments)
    THEN [panicked |-> FALSE, playlist |-> playlist, streams |-> streams]
    ELSE IF IsNil(playlist.Segments[idx])
    THEN MediaLoop(base, playlist, idx + 1, streams, withStreams)
    ELSE LET segment == Deref(playlist.Segments[idx])
         IN  IF KeyPanics(segment.Key)
             THEN [panicked |-> TRUE, playlist |-> playlist, streams |-> streams]
             ELSE MediaLoop(
                     base,
                     [playlist EXCEPT !.Segments[idx] =
                         Ptr([segment EXCEPT !.Key = SanitizedKey(segment.Key)])],
                     idx + 1,
                     IF withStreams
                     THEN Append(streams, [URL |-> JoinURL(base, segment.URI),
                                           Bandwidth |-> 0])
                     ELSE streams,
                     withStreams)

\* The sanitization of playlist.Key followed by the loop over the segments.
SanitizeMedia(base, playlist, withStreams) ==
    IF KeyPanics(playlist.Key)
    THEN [panicked |-> TRUE, playlist |-> playlist, streams |-> <<>>]
    ELSE MediaLoop(base, [playlist EXCEPT !.Key = SanitizedKey(playlist.Key)],
                   1, <<>>, withStreams)

\* The GET of the playlist and m3u8.DecodeFrom: either fails and the call
\* returns the error, or m3u8obj is the decoded playlist.
FetchAndDecode ==
    /\ call \in {"GetPlaylistsFromURL", "GetMediaPlaylist"}
    /\ pc = "start"
    /\ \/ /\ err' = "NetworkError"
          /\ pc' = "done"
          /\ UNCHANGED m3u8obj
       \/ /\ err' = "LogicError"
          /\ pc' = "done"
          /\ UNCHANGED m3u8obj
       \/ /\ err' = "nil"
          /\ pc' = "decoded"
          /\ m3u8obj' = rawFile
    /\ UNCHANGED <<o, oBefore, element, call, parsedURL, rawFile, playlists, i, param, params, gets>>

\* case m3u8.MASTER
ResolveMaster ==
    /\ call = "GetPlaylistsFromURL"
    /\ pc = "decoded"
    /\ m3u8obj.kind = MASTER
    /\ \E impl \in SortImplementations :
          playlists' = SortSort(impl, MasterStreams(parsedURL, m3u8obj))
    /\ pc' = "done"
    /\ UNCHANGED <<o, oBefore, element, call, parsedURL, rawFile, m3u8obj, err, i, param, params, gets>>

\* case m3u8.MEDIA: returns the streams, or panics and returns nothing.
ResolveMedia ==
    /\ call = "GetPlaylistsFromURL"
    /\ pc = "decoded"
    /\ m3u8obj.kind = MEDIA
    /\ LET r == SanitizeMedia(parsedURL, m3u8obj, TRUE)
       IN  /\ m3u8obj' = r.playlist
           /\ playlists' = IF r.panicked THEN <<>> ELSE r.streams
           /\ pc' = IF r.panicked THEN "panic" ELSE "done"
    /\ UNCHANGED <<o, oBefore, element, call, parsedURL, rawFile, err, i, param, params, gets>>

\* default: the list type is not supported.
ResolveUnsupported ==
    /\ call = "GetPlaylistsFromURL"
    /\ pc = "decoded"
    /\ m3u8obj.kind \notin {MASTER, MEDIA}
    /\ err' = "LogicError"
    /\ pc' = "done"
    /\ UNCHANGED <<o, oBefore, element, call, parsedURL, rawFile, m3u8obj, playlists, i, param, params, gets>>

\* ---------------------------------------------------------- GetMediaPlaylist

\* The playlist of master.URL (here parsedURL) is sanitized and returned, as
\* the one stream of playlists, with the URL and the bandwidth of master,
\* unless it is not a media playlist or the sanitization panics.
GetMediaPlaylistBody ==
    /\ call = "GetMediaPlaylist"
    /\ pc = "decoded"
    /\ IF m3u8obj.kind # MEDIA
       THEN /\ err' = "LogicError"
            /\ pc' = "done"
            /\ UNCHANGED <<m3u8obj, playlists>>
       ELSE LET r == SanitizeMedia(parsedURL, m3u8obj, FALSE)
            IN  /\ m3u8obj' = r.playlist
                /\ \E bandwidth \in Bandwidths :
                      playlists' = IF r.panicked THEN <<>>
                                   ELSE <<[URL |-> parsedURL, Bandwidth |-> bandwidth]>>
                /\ pc' = IF r.panicked THEN "panic" ELSE "done"
                /\ UNCHANGED err
    /\ UNCHANGED <<o, oBefore, element, call, parsedURL, rawFile, i, param, params, gets>>

\* A playlist of a list type that is neither MASTER nor MEDIA.
OtherPlaylist ==
    [kind |-> OtherType, Variants |-> <<>>, Key |-> Nil, SeqNo |-> U64(0, 0, 0, 0),
     Segments |-> <<>>]

\* A request URL and the playlist the server holds for it.
InitResolve ==
    /\ o = U64(0, 0, 0, 0)
    /\ oBefore = U64(0, 0, 0, 0)
    /\ element = <<>>
    /\ pc = "start"
    /\ \/ /\ call = "GetPlaylistsFromURL"
          /\ \/ /\ parsedURL \in RequestURLs
                /\ rawFile \in MasterPlaylists(Bandwidths) \cup {OtherPlaylist}
             \/ /\ parsedURL \in MediaRequestURLs
                /\ rawFile \in MediaPlaylists(ResolveKeys, ResolveKeys, {U64(0, 0, 0, 0)})
       \/ /\ call = "GetMediaPlaylist"
          /\ parsedURL \in {u \in RequestURLs : Len(u.Path) = 6}
          /\ rawFile \in MediaPlaylists(ResolveKeys, ResolveKeys, {U64(0, 0, 0, 0)})
                            \cup MasterPlaylists({})
    /\ m3u8obj = NoPlaylist
    /\ playlists = <<>>
    /\ err = "nil"
    /\ i = 1
    /\ param = ZeroParam
    /\ params = <<>>
    /\ gets = <<>>

NextResolve ==
    \/ FetchAndDecode
    \/ ResolveMaster
    \/ ResolveMedia
    \/ ResolveUnsupported
    \/ GetMediaPlaylistBody

SpecResolve == InitResolve /\ [][NextResolve]_vars

\* ------------------------------------------- GetStreamDecryptionParameters

\* Mutation of IsUnencrypted: the playlist.Key check is dropped.
IsUnencryptedNever(playlist) == FALSE

\* playlist.Key == nil: the stream isn't encrypted.
IsUnencrypted(playlist) == IsNil(playlist.Key)

\* Mutation of SegmentSequence: the index counts the non-nil segments only.
SegmentSequenceOfSurvivors(playlist, idx) ==
    Uint64Add(playlist.SeqNo,
              Cardinality({j \in 1..(idx - 1) : ~IsNil(playlist.Segments[j])}))

\* param.Sequence = playlist.SeqNo + uint64(i), for the Go index i = idx - 1.
SegmentSequence(playlist, idx) == Uint64Add(playlist.SeqNo, idx - 1)

\* The 16-byte literal built from param.Sequence.
SynthesizedIV(seq) ==
    <<0, 0, 0, 0, 0, 0, 0, 0,
      ShiftByte(seq, 56), ShiftByte(seq, 48), ShiftByte(seq, 40), ShiftByte(seq, 32),
      ShiftByte(seq, 24), ShiftByte(seq, 16), ShiftByte(seq, 8), ShiftByte(seq, 0)>>

\* Mutation of NextIV: a segment without a key keeps the previous IV.
NextIVCarried(prev, segment, seq) ==
    IF IsNil(segment.Key)
    THEN (IF prev = <<>> THEN SynthesizedIV(seq) ELSE prev)
    ELSE IF Len(Deref(segment.Key).IV) > 0
         THEN BytesOfString(Deref(segment.Key).IV)
         ELSE SynthesizedIV(seq)

\* param.IV after the two IV assignments of one iteration.
NextIV(prev, segment, seq) ==
    LET synth == IF IsNil(segment.Key) \/ Len(Deref(segment.Key).IV) = 0
                 THEN SynthesizedIV(seq) ELSE prev
    IN  IF ~IsNil(segment.Key) /\ Len(Deref(segment.Key).IV) > 0
        THEN BytesOfString(Deref(segment.Key).IV)
        ELSE synth

\* param.Method after one iteration.
NextMethod(prev, segment) ==
    IF IsNil(segment.Key) THEN prev ELSE Deref(segment.Key).Method

\* Mutation of NextKey: the accumulator is reset in every iteration.
NextKeyReset(prev, segment, response) ==
    IF IsNil(segment.Key) THEN <<>> ELSE response

\* param.Key after one iteration; response is the body of the key GET.
NextKey(prev, segment, response) ==
    IF IsNil(segment.Key) THEN prev ELSE response

\* The type assertion and the playlist.Key check.
DeriveEnter ==
    /\ call = "GetStreamDecryptionParameters"
    /\ pc = "start"
    /\ IF m3u8obj.kind # MEDIA
       THEN /\ err' = "LogicError"
            /\ pc' = "done"
       ELSE IF IsUnencrypted(m3u8obj)
       THEN /\ err' = "nil"
            /\ pc' = "done"
       ELSE /\ err' = "nil"
            /\ pc' = "loop"
    /\ i' = 1
    /\ param' = ZeroParam
    /\ UNCHANGED <<o, oBefore, element, call, parsedURL, rawFile, m3u8obj, playlists, params, gets>>

\* One iteration of the loop over playlist.Segments on a nil entry.
DeriveSkip ==
    /\ pc = "loop"
    /\ i <= Len(m3u8obj.Segments)
    /\ IsNil(m3u8obj.Segments[i])
    /\ i' = i + 1
    /\ UNCHANGED <<o, oBefore, element, call, pc, parsedURL, rawFile, m3u8obj, playlists, err, param, params, gets>>

\* One iteration on a segment without a key: the previous key is reused.
DeriveInherit ==
    /\ pc = "loop"
    /\ i <= Len(m3u8obj.Segments)
    /\ ~IsNil(m3u8obj.Segments[i])
    /\ LET segment == Deref(m3u8obj.Segments[i])
           seq == SegmentSequence(m3u8obj, i)
           next == [Method |-> NextMethod(param.Method, segment),
                    Sequence |-> seq,
                    Key |-> NextKey(param.Key, segment, <<>>),
                    IV |-> NextIV(param.IV, segment, seq)]
       IN  /\ IsNil(segment.Key)
           /\ param' = next
           /\ params' = Append(params, next)
    /\ i' = i + 1
    /\ UNCHANGED <<o, oBefore, element, call, pc, parsedURL, rawFile, m3u8obj, playlists, err, gets>>

\* Mutation of DeriveFetch: the error of a failed GET is recorded, and the
\* loop goes on without returning.
DeriveFetchIgnoringError ==
    /\ pc = "loop"
    /\ i <= Len(m3u8obj.Segments)
    /\ ~IsNil(m3u8obj.Segments[i])
    /\ LET segment == Deref(m3u8obj.Segments[i])
           seq == SegmentSequence(m3u8obj, i)
       IN  /\ ~IsNil(segment.Key)
           /\ gets' = Append(gets, Deref(segment.Key).URI)
           /\ \/ /\ err' = "NetworkError"
                 /\ param' = [param EXCEPT !.Sequence = seq,
                                           !.Method = NextMethod(param.Method, segment),
                                           !.IV = NextIV(param.IV, segment, seq)]
                 /\ i' = i + 1
                 /\ UNCHANGED <<pc, params>>
              \/ \E response \in KeyBodies :
                    LET next == [Method |-> NextMethod(param.Method, segment),
                                 Sequence |-> seq,
                                 Key |-> NextKey(param.Key, segment, response),
                                 IV |-> NextIV(param.IV, segment, seq)]
                    IN  /\ param' = next
                        /\ params' = Append(params, next)
                        /\ i' = i + 1
                        /\ UNCHANGED <<pc, err>>
    /\ UNCHANGED <<o, oBefore, element, call, parsedURL, rawFile, m3u8obj, playlists>>

\* One iteration on a segment with a key: the key is requested with GET; the
\* request fails (the naked return) or answers 200 with a body.
DeriveFetch ==
    /\ pc = "loop"
    /\ i <= Len(m3u8obj.Segments)
    /\ ~IsNil(m3u8obj.Segments[i])
    /\ LET segment == Deref(m3u8obj.Segments[i])
           seq == SegmentSequence(m3u8obj, i)
       IN  /\ ~IsNil(segment.Key)
           /\ gets' = Append(gets, Deref(segment.Key).URI)
           /\ \/ /\ err' = "NetworkError"
                 /\ pc' = "done"
                 /\ param' = [param EXCEPT !.Sequence = seq,
                                           !.Method = NextMethod(param.Method, segment),
                                           !.IV = NextIV(param.IV, segment, seq)]
                 /\ UNCHANGED <<params, i>>
              \/ \E response \in KeyBodies :
                    LET next == [Method |-> NextMethod(param.Method, segment),
                                 Sequence |-> seq,
                                 Key |-> NextKey(param.Key, segment, response),
                                 IV |-> NextIV(param.IV, segment, seq)]
                    IN  /\ param' = next
                        /\ params' = Append(params, next)
                        /\ i' = i + 1
                        /\ UNCHANGED <<pc, err>>
    /\ UNCHANGED <<o, oBefore, element, call, parsedURL, rawFile, m3u8obj, playlists>>

\* The loop ends: return.
DeriveReturn ==
    /\ pc = "loop"
    /\ i > Len(m3u8obj.Segments)
    /\ pc' = "done"
    /\ UNCHANGED <<o, oBefore, element, call, parsedURL, rawFile, m3u8obj, playlists, err, i, param, params, gets>>

\* A media playlist (or, for the type assertion, a master playlist) handed to
\* GetStreamDecryptionParameters.
InitDerive ==
    /\ o = U64(0, 0, 0, 0)
    /\ oBefore = U64(0, 0, 0, 0)
    /\ element = <<>>
    /\ call = "GetStreamDecryptionParameters"
    /\ pc = "start"
    /\ parsedURL = NoURL
    /\ rawFile = NoPlaylist
    /\ m3u8obj \in MediaPlaylists({CHOOSE b \in DeriveKeys : TRUE}, DeriveKeys, SeqNos)
                     \cup MasterPlaylists({})
    /\ playlists = <<>>
    /\ err = "nil"
    /\ i = 1
    /\ param = ZeroParam
    /\ params = <<>>
    /\ gets = <<>>

NextDerive == DeriveEnter \/ DeriveSkip \/ DeriveInherit \/ DeriveFetch \/ DeriveReturn

SpecDerive == InitDerive /\ [][NextDerive]_vars

\* ------------------------------------- claims: GetStreamDecryptionParameters

\* The non-nil segments of the playlist before index idx, and in all.
Survivors(idx) == {j \in 1..(idx - 1) : ~IsNil(m3u8obj.Segments[j])}

AllSurvivors == Survivors(Len(m3u8obj.Segments) + 1)

\* The index in playlist.Segments of the segment behind the k-th entry of params.
EntryIndex(k) ==
    CHOOSE idx \in 1..Len(m3u8obj.Segments) :
        ~IsNil(m3u8obj.Segments[idx]) /\ Cardinality(Survivors(idx)) = k - 1

EntrySegment(k) == Deref(m3u8obj.Segments[EntryIndex(k)])

Derived == call = "GetStreamDecryptionParameters" /\ pc = "done"

\* C2: when a key GET fails, GetStreamDecryptionParameters returns the error
\* and an empty parameter list.
C2_NoPartialSequence ==
    (Derived /\ err = "NetworkError") => params = <<>>

\* The entry j is the most recent entry before k whose segment has a key.
MostRecentKeyed(j, k) ==
    /\ j < k
    /\ ~IsNil(EntrySegment(j).Key)
    /\ \A m \in (j + 1)..(k - 1) : IsNil(EntrySegment(m).Key)

\* C3: after a successful call on an encrypted media playlist there is one
\* entry per non-nil segment, and the entry of a segment without a key has
\* the method and the key of the entry of the most recent preceding segment
\* with a key.
C3_Inheritance ==
    (Derived /\ err = "nil" /\ m3u8obj.kind = MEDIA /\ ~IsNil(m3u8obj.Key)) =>
        /\ Len(params) = Cardinality(AllSurvivors)
        /\ \A k \in 1..Len(params) : \A j \in 1..Len(params) :
              (IsNil(EntrySegment(k).Key) /\ MostRecentKeyed(j, k)) =>
                  /\ params[k].Method = params[j].Method
                  /\ params[k].Key = params[j].Key

\* A successful call in which the third segment inherits from the second,
\* whose method and key differ from the first's.
C3_Witness ==
    /\ Derived /\ err = "nil" /\ Len(params) = 3
    /\ IsNil(EntrySegment(3).Key) /\ MostRecentKeyed(2, 3)
    /\ ~IsNil(EntrySegment(1).Key)
    /\ params[1].Method # params[2].Method
    /\ params[1].Key # params[2].Key

\* A successful call in which two consecutive segments inherit.
C3_WitnessConsecutive ==
    /\ Derived /\ err = "nil" /\ Len(params) = 3
    /\ MostRecentKeyed(1, 3) /\ MostRecentKeyed(1, 2)
    /\ IsNil(EntrySegment(3).Key) /\ IsNil(EntrySegment(2).Key)

\* The number the last 8 bytes of iv encode, most significant byte first, as
\* limbs.
BigEndianValue(iv) ==
    <<iv[9] * 256 + iv[10], iv[11] * 256 + iv[12],
      iv[13] * 256 + iv[14], iv[15] * 256 + iv[16]>>

NoDeclaredIV(segment) ==
    IsNil(segment.Key) \/ Len(Deref(segment.Key).IV) = 0

\* C4: the entry of a segment without a key, or with a key without IV, has
\* an IV of 8 zero bytes followed by the big-endian encoding of the entry's
\* own sequence number, whatever the IV of the entries before it.
C4_SynthesizedIV ==
    call = "GetStreamDecryptionParameters" =>
        \A k \in 1..Len(params) :
            NoDeclaredIV(EntrySegment(k)) =>
                /\ Len(params[k].IV) = 16
                /\ \A b \in 1..8 : params[k].IV[b] = 0
                /\ \A b \in 9..16 : params[k].IV[b] \in 0..255
                /\ BigEndianValue(params[k].IV) = params[k].Sequence

\* A segment without a key follows a segment with a declared IV, and its own
\* synthesized IV has a non-zero byte.
C4_Witness ==
    /\ call = "GetStreamDecryptionParameters"
    /\ \E k \in 2..Len(params) :
          /\ IsNil(EntrySegment(k).Key)
          /\ ~NoDeclaredIV(EntrySegment(k - 1))
          /\ params[k].IV[16] # 0
          /\ params[k].IV[15] # 0

\* C5: every entry has an IV of exactly 16 bytes.
C5_IVLength ==
    call = "GetStreamDecryptionParameters" =>
        \A k \in 1..Len(params) : Len(params[k].IV) = 16

\* x + 1 and x + n on 64 bits, by counting.
Succ64(x) ==
    IF x[4] < LimbBase - 1 THEN <<x[1], x[2], x[3], x[4] + 1>>
    ELSE IF x[3] < LimbBase - 1 THEN <<x[1], x[2], x[3] + 1, 0>>
    ELSE IF x[2] < LimbBase - 1 THEN <<x[1], x[2] + 1, 0, 0>>
    ELSE IF x[1] < LimbBase - 1 THEN <<x[1] + 1, 0, 0, 0>>
    ELSE <<0, 0, 0, 0>>

RECURSIVE Plus64(_, _)
Plus64(x, n) == IF n = 0 THEN x ELSE Plus64(Succ64(x), n - 1)

\* x < y on 64 bits.
Less64(x, y) ==
    \E d \in 1..4 : x[d] < y[d] /\ \A e \in 1..(d - 1) : x[e] = y[e]

Max64 == <<LimbBase - 1, LimbBase - 1, LimbBase - 1, LimbBase - 1>>

\* Every entry's sequence number is SeqNo plus the segment's index in
\* playlist.Segments, modulo 2^64.
SequenceIsStartPlusIndex ==
    \A k \in 1..Len(params) :
        params[k].Sequence = Plus64(m3u8obj.SeqNo, EntryIndex(k) - 1)

StrictlyIncreasing ==
    \A k \in 1..(Len(params) - 1) :
        Less64(params[k].Sequence, params[k + 1].Sequence)

\* SeqNo + (len(Segments) - 1) < 2^64
NoWrap ==
    \A n \in 0..(Len(m3u8obj.Segments) - 2) : Plus64(m3u8obj.SeqNo, n) # Max64

\* C6 as stated: sequence numbers are SeqNo + index and strictly increasing
\* along params for every start sequence number.
C6_AlwaysIncreasing ==
    call = "GetStreamDecryptionParameters" =>
        (SequenceIsStartPlusIndex /\ StrictlyIncreasing)

\* C6 amended: sequence numbers are SeqNo + index modulo 2^64, and strictly
\* increasing along params when SeqNo + (len(Segments) - 1) < 2^64.
C6_IncreasingUnlessWrapped ==
    call = "GetStreamDecryptionParameters" =>
        (SequenceIsStartPlusIndex /\ (NoWrap => StrictlyIncreasing))

\* Two entries around a nil placeholder, with a carry out of the low byte.
C6_Witness ==
    /\ call = "GetStreamDecryptionParameters" /\ NoWrap
    /\ Len(params) >= 2
    /\ EntryIndex(2) = 3
    /\ m3u8obj.SeqNo[4] = 255
    /\ params[2].Sequence[4] = 257

\* C10: without a document-level key the call returns no entry and no error,
\* and requests nothing.
C10_Unencrypted ==
    (call = "GetStreamDecryptionParameters" /\ m3u8obj.kind = MEDIA
        /\ IsNil(m3u8obj.Key)) =>
        /\ pc \in {"start", "done"}
        /\ params = <<>> /\ err = "nil" /\ gets = <<>>

\* The call returned on a playlist without document-level key whose segments
\* have keys.
C10_Witness ==
    /\ Derived /\ m3u8obj.kind = MEDIA /\ IsNil(m3u8obj.Key)
    /\ \E k \in 1..Len(m3u8obj.Segments) :
          ~IsNil(m3u8obj.Segments[k]) /\ ~IsNil(Deref(m3u8obj.Segments[k]).Key)

\* The segments up to index idx that are not nil and have a key of their own.
KeyedUpTo(idx) ==
    {k \in (1..idx) \cap DOMAIN m3u8obj.Segments : ~IsNil(m3u8obj.Segments[k])
                      /\ ~IsNil(Deref(m3u8obj.Segments[k]).Key)}

\* Their key URIs, in segment order.
KeyURIsUpTo(idx) ==
    LET keyed == KeyedUpTo(idx)
        nth(a) == CHOOSE k \in keyed : Cardinality({j \in keyed : j < k}) = a - 1
    IN  [a \in 1..Cardinality(keyed) |-> Deref(Deref(m3u8obj.Segments[nth(a)]).Key).URI]

\* The GETs made so far are those of the keyed segments already visited, in
\* segment order; after a failure, of the keyed segments up to the failing one.
GetsSoFar ==
    call = "GetStreamDecryptionParameters" =>
        CASE pc = "start" -> gets = <<>>
          [] pc = "loop" -> gets = KeyURIsUpTo(i - 1)
          [] pc = "done" /\ err = "NetworkError" ->
                gets = KeyURIsUpTo(i) /\ i \in KeyedUpTo(i)
          [] pc = "done" /\ err = "LogicError" -> gets = <<>>
          [] pc = "done" /\ err = "nil" ->
                gets = IF m3u8obj.kind = MEDIA /\ ~IsNil(m3u8obj.Key)
                       THEN KeyURIsUpTo(Len(m3u8obj.Segments))
                       ELSE <<>>

\* A step makes at most one GET, after those made before, and none once a GET
\* has failed.
OneGetAtATime ==
    /\ Len(gets') <= Len(gets) + 1
    /\ SubSeq(gets', 1, Len(gets)) = gets
    /\ err = "NetworkError" => gets' = gets

\* C12: the key GETs are made one at a time in segment order, one to the key
\* URI of every non-nil segment with a key of its own (repeated URIs
\* included), none for a nil segment or a segment without key, and none after
\* the first GET that failed.
C12_GetsInSegmentOrder == [](GetsSoFar) /\ [][OneGetAtATime]_vars

\* The second of two GETs to the same key URI failed, before a third segment
\* with a key, which was not requested.
C12_Witness ==
    /\ Derived /\ err = "NetworkError"
    /\ Len(m3u8obj.Segments) = 3 /\ i = 2
    /\ KeyedUpTo(3) = {1, 2, 3}
    /\ Len(gets) = 2 /\ gets[1] = gets[2]

\* A segment without key and a nil segment between two keyed segments of the
\* same key URI: two GETs.
C12_WitnessInherit ==
    /\ Derived /\ err = "nil"
    /\ Len(m3u8obj.Segments) = 3
    /\ KeyedUpTo(3) = {1, 3}
    /\ Len(gets) = 2 /\ gets[1] = gets[2]

\* ----------------------------------------------- OptionalUint64.UnmarshalXML

\* x < y on uint64.
Uint64Less(x, y) ==
    \/ x[1] < y[1]
    \/ x[1] = y[1] /\ x[2] < y[2]
    \/ x[1] = y[1] /\ x[2] = y[2] /\ x[3] < y[3]
    \/ x[1] = y[1] /\ x[2] = y[2] /\ x[3] = y[3] /\ x[4] < y[4]

\* x * 10 on uint64, wrapping at 2^64.
Uint64Mul10(x) ==
    LET p4 == x[4] * 10
        p3 == x[3] * 10 + (p4 \div LimbBase)
        p2 == x[2] * 10 + (p3 \div LimbBase)
        p1 == x[1] * 10 + (p2 \div LimbBase)
    IN  <<p1 % LimbBase, p2 % LimbBase, p3 % LimbBase, p4 % LimbBase>>

\* The value of a character as a digit of strconv.ParseUint; 36 for a
\* character that is no digit in any base.
DigitOfChar(c) ==
    CASE c = "0" -> 0
      [] c = "1" -> 1
      [] c = "2" -> 2
      [] c = "3" -> 3
      [] c = "4" -> 4
      [] c = "5" -> 5
      [] c = "6" -> 6
      [] c = "7" -> 7
      [] c = "8" -> 8
      [] c = "9" -> 9
      [] c = "x" -> 33
      [] OTHER -> 36

\* maxUint64/10 + 1 = 0x199999999999999A
ParseUintCutoff == U64(6553, 39321, 39321, 39322)

\* The loop of strconv.ParseUint(s, 10, 64) from the k-th character on, with
\* the number n read so far.
RECURSIVE ParseUintLoop(_, _, _)
ParseUintLoop(s, k, n) ==
    IF k > Len(s) THEN [err |-> "nil", value |-> n]
    ELSE LET d == DigitOfChar(s[k])
         IN  IF d >= 10 THEN [err |-> "ErrSyntax", value |-> U64(0, 0, 0, 0)]
             ELSE IF ~Uint64Less(n, ParseUintCutoff)
             THEN [err |-> "ErrRange", value |-> n]
             ELSE LET n1 == Uint64Add(Uint64Mul10(n), d)
                  IN  IF Uint64Less(n1, Uint64Mul10(n))
                      THEN [err |-> "ErrRange", value |-> n]
                      ELSE ParseUintLoop(s, k + 1, n1)

\* strconv.ParseUint(element, 10, 64)
ParseUint(s) ==
    IF Len(s) = 0 THEN [err |-> "ErrSyntax", value |-> U64(0, 0, 0, 0)]
    ELSE ParseUintLoop(s, 1, U64(0, 0, 0, 0))

\* Mutation of UnmarshalValue: the text is parsed even when it is empty.
UnmarshalValueAlwaysParsed(old, text) ==
    LET r == ParseUint(text)
    IN  IF r.err # "nil" THEN [err |-> r.err, o |-> old]
        ELSE [err |-> "nil", o |-> r.value]

\* The body of UnmarshalXML after DecodeElement: the error returned and the
\* value of *o, which was old.
UnmarshalValue(old, text) ==
    IF Len(text) > 0
    THEN LET r == ParseUint(text)
         IN  IF r.err # "nil" THEN [err |-> r.err, o |-> old]
             ELSE [err |-> "nil", o |-> r.value]
    ELSE [err |-> "nil", o |-> old]

\* d.DecodeElement fails and its error is returned, or gives the character
\* data of the element, which is parsed.
UnmarshalXML ==
    /\ call = "UnmarshalXML"
    /\ pc = "start"
    /\ \/ /\ err' = "XMLError"
          /\ o' = o
       \/ LET r == UnmarshalValue(o, element)
          IN  /\ err' = r.err
              /\ o' = r.o
    /\ pc' = "done"
    /\ UNCHANGED <<oBefore, element, call, parsedURL, rawFile, m3u8obj, playlists, i,
                   param, params, gets>>

\* The characters of the element texts of the model.
TextChars == {"0", "1", "9", "x", " "}

\* 2^64 - 1, 2^64 and 10^20 - 1 in decimal.
MaxUint64Text ==
    <<"1", "8", "4", "4", "6", "7", "4", "4", "0", "7", "3", "7", "0", "9", "5", "5",
      "1", "6", "1", "5">>

LongTexts ==
    { MaxUint64Text,
      [MaxUint64Text EXCEPT ![20] = "6"],
      Repeat("9", 20) }

\* Element texts: every text of at most MaxTextLen characters, and the long ones.
ElementTexts ==
    UNION {[1..n -> TextChars] : n \in 0..MaxTextLen} \cup LongTexts

\* An element is unmarshalled into a fresh value or into one that holds 7.
InitUnmarshal ==
    /\ call = "UnmarshalXML"
    /\ pc = "start"
    /\ o \in {U64(0, 0, 0, 0), U64(0, 0, 0, 7)}
    /\ oBefore = o
    /\ element \in ElementTexts
    /\ parsedURL = NoURL
    /\ rawFile = NoPlaylist
    /\ m3u8obj = NoPlaylist
    /\ playlists = <<>>
    /\ err = "nil"
    /\ i = 1
    /\ param = ZeroParam
    /\ params = <<>>
    /\ gets = <<>>

NextUnmarshal == UnmarshalXML

SpecUnmarshal == InitUnmarshal /\ [][NextUnmarshal]_vars

\* --------------------------------------- claims: OptionalUint64.UnmarshalXML

DecimalDigits == <<"0", "1", "2", "3", "4", "5", "6", "7", "8", "9">>

IsDecimalText(text) ==
    Len(text) > 0 /\ \A k \in 1..Len(text) : \E d \in 1..10 : text[k] = DecimalDigits[d]

\* The number a decimal text of at most 9 digits denotes.
RECURSIVE DecimalValue(_)
DecimalValue(text) ==
    IF Len(text) = 0 THEN 0
    ELSE 10 * DecimalValue(SubSeq(text, 1, Len(text) - 1))
         + (CHOOSE d \in 0..9 : DecimalDigits[d + 1] = text[Len(text)])

\* The text denotes a number below 2^64, and that number as a uint64.
FitsUint64(text) ==
    IsDecimalText(text) /\ (Len(text) <= 9 \/ text = MaxUint64Text)

ValueOfText(text) ==
    IF text = MaxUint64Text
    THEN U64(LimbBase - 1, LimbBase - 1, LimbBase - 1, LimbBase - 1)
    ELSE U64(0, 0, DecimalValue(text) \div LimbBase, DecimalValue(text) % LimbBase)

\* C11: once DecodeElement gave the element text, UnmarshalXML returns no
\* error and leaves the value unchanged when the text is empty, sets the value
\* to the number when the text is a decimal unsigned 64-bit integer, and
\* returns an error and leaves the value unchanged for any other text.
C11_UnmarshalXML ==
    (call = "UnmarshalXML" /\ pc = "done") =>
        IF err = "XMLError" THEN o = oBefore
        ELSE IF Len(element) = 0 THEN err = "nil" /\ o = oBefore
        ELSE IF FitsUint64(element) THEN err = "nil" /\ o = ValueOfText(element)
        ELSE err \in {"ErrSyntax", "ErrRange"} /\ o = oBefore

\* The value 7 was kept over an empty element.
C11_Witness ==
    /\ call = "UnmarshalXML" /\ pc = "done" /\ err = "nil"
    /\ Len(element) = 0 /\ oBefore = U64(0, 0, 0, 7) /\ o = oBefore

\* The value 7 was replaced by 2^64 - 1, and kept over 2^64.
C11_WitnessMax ==
    /\ call = "UnmarshalXML" /\ pc = "done" /\ oBefore = U64(0, 0, 0, 7)
    /\ Len(element) = 20
    /\ \/ element = MaxUint64Text /\ err = "nil" /\ o[1] = LimbBase - 1
       \/ element[20] = "6" /\ err = "ErrRange" /\ o = oBefore

\* ----------------------------------------------- claims: GetPlaylistsFromURL

ResolvedMaster ==
    call = "GetPlaylistsFromURL" /\ pc = "done" /\ err = "nil" /\ m3u8obj.kind = MASTER

SortedDescending ==
    \A a \in 1..(Len(playlists) - 1) :
        playlists[a].Bandwidth >= playlists[a + 1].Bandwidth

\* The place in playlist.Variants of the variant behind a stream.
VariantIndex(stream) ==
    CHOOSE k \in 1..Len(m3u8obj.Variants) :
        MasterStreams(parsedURL, m3u8obj)[k] = stream

\* One stream per variant.
PermutationOfVariants ==
    /\ Len(playlists) = Len(m3u8obj.Variants)
    /\ \A k \in 1..Len(m3u8obj.Variants) :
          \E a \in 1..Len(playlists) : playlists[a] = MasterStreams(parsedURL, m3u8obj)[k]

TiesKeepOrder ==
    \A a \in 1..Len(playlists) : \A b \in (a + 1)..Len(playlists) :
        playlists[a].Bandwidth = playlists[b].Bandwidth =>
            VariantIndex(playlists[a]) < VariantIndex(playlists[b])

\* C1 as stated: the streams of a master playlist are returned by descending
\* bandwidth, streams of equal bandwidth in the order of their variants.
C1_SortedStable ==
    ResolvedMaster => (PermutationOfVariants /\ SortedDescending /\ TiesKeepOrder)

\* C1 amended: the streams of a master playlist are returned, one per
\* variant, by descending bandwidth (in no particular order among streams of
\* equal bandwidth).
C1_SortedDescending ==
    ResolvedMaster => (PermutationOfVariants /\ SortedDescending)

\* Seven variants, not in descending order in the playlist, some of equal
\* bandwidth.
C1_Witness ==
    /\ ResolvedMaster /\ Len(playlists) = 7
    /\ playlists # MasterStreams(parsedURL, m3u8obj)
    /\ playlists[1].Bandwidth = playlists[2].Bandwidth
    /\ playlists[1].Bandwidth # playlists[7].Bandwidth

\* The streams GetPlaylistsFromURL has to return for a media playlist.
ExpectedMediaStreams ==
    LET segs == rawFile.Segments
        alive == {k \in 1..Len(segs) : ~IsNil(segs[k])}
        nth(a) == CHOOSE k \in alive : Cardinality({j \in alive : j < k}) = a - 1
    IN  [a \in 1..Cardinality(alive) |->
            [URL |-> [Scheme |-> parsedURL.Scheme, Host |-> parsedURL.Host,
                      Path |-> JoinPath(parsedURL.Path, Deref(segs[nth(a)]).URI),
                      RawQuery |-> parsedURL.RawQuery],
             Bandwidth |-> 0]]

\* C7: for a decoded media playlist GetPlaylistsFromURL returns one stream
\* per non-nil segment, in segment order, with bandwidth 0 and the URL of that
\* segment.
C7_OnePerSegment ==
    (call = "GetPlaylistsFromURL" /\ rawFile.kind = MEDIA
        /\ pc \in {"done", "panic"} /\ err = "nil") =>
        playlists = ExpectedMediaStreams

\* path is base up to and including its last "/", followed by uri.
IsJoin(base, uri, path) ==
    \E c \in 0..Len(base) :
        /\ c = 0 \/ base[c] = "/"
        /\ \A m \in (c + 1)..Len(base) : base[m] # "/"
        /\ Len(path) = c + Len(uri)
        /\ \A m \in 1..c : path[m] = base[m]
        /\ \A m \in 1..Len(uri) : path[c + m] = uri[m]

\* The relative references of the decoded playlist with their bandwidths.
References ==
    {<<m3u8obj.Variants[k].URI, m3u8obj.Variants[k].Bandwidth>> :
        k \in 1..Len(m3u8obj.Variants)}
    \cup {<<Deref(m3u8obj.Segments[k]).URI, 0>> :
             k \in {j \in 1..Len(m3u8obj.Segments) : ~IsNil(m3u8obj.Segments[j])}}

\* C8: the URL of every stream GetPlaylistsFromURL returns has the scheme,
\* the host and the raw query of the request URL, and the request path up to
\* and including its last "/" followed by the relative reference.
C8_URLJoin ==
    call = "GetPlaylistsFromURL" =>
        \A a \in 1..Len(playlists) :
            /\ playlists[a].URL.Scheme = parsedURL.Scheme
            /\ playlists[a].URL.Host = parsedURL.Host
            /\ playlists[a].URL.RawQuery = parsedURL.RawQuery
            /\ \E r \in References :
                  /\ r[2] = playlists[a].Bandwidth
                  /\ IsJoin(parsedURL.Path, r[1], playlists[a].URL.Path)

\* Streams of a master and of a media playlist under https://h/a/b/c?x=1.
C8_Witness ==
    /\ call = "GetPlaylistsFromURL" /\ pc = "done"
    /\ parsedURL.Path = <<"/", "a", "/", "b", "/", "c">>
    /\ Len(playlists) >= 2
    /\ playlists[2].URL.Path = <<"/", "a", "/", "b", "/">> \o EntryName(2)
    /\ playlists[2].URL.RawQuery = "x=1"

\* The key URI without its quotes.
Unquoted(uri) ==
    IF Len(uri) >= 1 /\ uri[1] = Quote /\ uri[Len(uri)] = Quote
    THEN [k \in 1..(Len(uri) - 2) |-> uri[k + 1]]
    ELSE uri

UnquotedKey(key) ==
    IF IsNil(key) THEN key ELSE Ptr([Deref(key) EXCEPT !.URI = Unquoted(Deref(key).URI)])

\* C9: on a decoded media playlist the sanitization of GetPlaylistsFromURL
\* and of GetMediaPlaylist does not fail, and leaves every key URI without
\* its pair of quotes.
C9_Sanitization ==
    (call \in {"GetPlaylistsFromURL", "GetMediaPlaylist"} /\ rawFile.kind = MEDIA
        /\ pc \in {"done", "panic"} /\ err = "nil") =>
        /\ pc = "done"
        /\ m3u8obj.Key = UnquotedKey(rawFile.Key)
        /\ \A k \in 1..Len(rawFile.Segments) :
              IF IsNil(rawFile.Segments[k]) THEN IsNil(m3u8obj.Segments[k])
              ELSE Deref(m3u8obj.Segments[k]).Key
                       = UnquotedKey(Deref(rawFile.Segments[k]).Key)

====
